---- MODULE Spec2Model ----
(***************************************************************************)
(* Model of losprimitos/forecast: the forecasting wizard of src/src/App.tsx *)
(* (upload -> columns -> transform -> train -> forecast) and the helpers of *)
(* src/src/models/timeSeriesModel.ts.                                       *)
(*                                                                          *)
(* Numbers.  A JavaScript number is modelled as a record                    *)
(*   [k |-> "fin", n |-> numerator, d |-> denominator]  (an exact rational) *)
(*   [k |-> "nan", n |-> 0, d |-> 1]                    (NaN)               *)
(*   [k |-> "inf", n |-> sign, d |-> 1]                 (+/-Infinity)       *)
(* so that division, NaN propagation and the comparison with Infinity are   *)
(* the ones of the code; rounding of doubles is not modelled.               *)
(*                                                                          *)
(* Strings.  A JavaScript string is a sequence of one-character strings.    *)
(***************************************************************************)
EXTENDS Integers, Sequences, FiniteSets, TLC

(***************************************************************************)
(* JavaScript numbers                                                       *)
(***************************************************************************)
RECURSIVE Gcd(_, _)
Gcd(a, b) ==
  IF b = 0 THEN a ELSE Gcd(b, a % b)

AbsInt(x) ==
  IF x < 0 THEN -x ELSE x

NaN ==
  [k |-> "nan", n |-> 0, d |-> 1]

PosInf ==
  [k |-> "inf", n |-> 1, d |-> 1]

\* the rational n/d (d # 0) in lowest terms with a positive denominator
Fin(n, d) ==
  LET g == Gcd(AbsInt(n), AbsInt(d))
      s == IF d < 0 THEN -1 ELSE 1
  IN [k |-> "fin", n |-> (s * n) \div g, d |-> (s * d) \div g]

Num(i) ==
  [k |-> "fin", n |-> i, d |-> 1]

IsNaN(x) ==
  x.k = "nan"

IsFinite(x) ==
  x.k = "fin"

SignOf(x) ==
  IF x.n > 0 THEN 1 ELSE IF x.n < 0 THEN -1 ELSE 0

\* a === b on numbers: NaN is equal to nothing
FEq(a, b) ==
  ~IsNaN(a) /\ ~IsNaN(b) /\ a = b

\* a < b: false as soon as one side is NaN
FLt(a, b) ==
  CASE IsNaN(a) \/ IsNaN(b) -> FALSE
    [] a.k = "inf" /\ b.k = "inf" -> a.n < b.n
    [] a.k = "inf" -> a.n < 0
    [] b.k = "inf" -> b.n > 0
    [] OTHER -> a.n * b.d < b.n * a.d

FNeg(a) ==
  CASE a.k = "fin" -> Fin(-a.n, a.d)
    [] a.k = "inf" -> [k |-> "inf", n |-> -a.n, d |-> 1]
    [] OTHER -> NaN

FAdd(a, b) ==
  CASE IsNaN(a) \/ IsNaN(b) -> NaN
    [] a.k = "inf" /\ b.k = "inf" -> IF a.n = b.n THEN a ELSE NaN
    [] a.k = "inf" -> a
    [] b.k = "inf" -> b
    [] OTHER -> Fin(a.n * b.d + b.n * a.d, a.d * b.d)

FSub(a, b) ==
  FAdd(a, FNeg(b))

FMul(a, b) ==
  CASE IsNaN(a) \/ IsNaN(b) -> NaN
    [] a.k = "inf" \/ b.k = "inf" ->
         IF SignOf(a) * SignOf(b) = 0 THEN NaN
         ELSE [k |-> "inf", n |-> SignOf(a) * SignOf(b), d |-> 1]
    [] OTHER -> Fin(a.n * b.n, a.d * b.d)

\* a / b; a finite number over zero is +/-Infinity, 0/0 and Inf/Inf are NaN
FDiv(a, b) ==
  CASE IsNaN(a) \/ IsNaN(b) -> NaN
    [] a.k = "inf" /\ b.k = "inf" -> NaN
    [] a.k = "inf" -> [k |-> "inf", n |-> a.n * (IF b.n < 0 THEN -1 ELSE 1), d |-> 1]
    [] b.k = "inf" -> Num(0)
    [] b.n = 0 -> IF a.n = 0 THEN NaN ELSE [k |-> "inf", n |-> SignOf(a), d |-> 1]
    [] OTHER -> Fin(a.n * b.d, a.d * b.n)

\* Math.abs
FAbs(a) ==
  CASE a.k = "fin" -> Fin(AbsInt(a.n), a.d)
    [] a.k = "inf" -> PosInf
    [] OTHER -> NaN

(***************************************************************************)
(* Sequences                                                                *)
(***************************************************************************)
\* Array.prototype.slice(from, to) with 0-based, end-exclusive indices
\* (negative indices count from the end, out-of-range ones are clamped)
Slice(s, from, to) ==
  LET len == Len(s)
      rel(i) == IF i < 0 THEN (IF len + i < 0 THEN 0 ELSE len + i)
                ELSE (IF i > len THEN len ELSE i)
      f == rel(from)
      t == rel(to)
  IN IF t <= f THEN << >> ELSE [i \in 1..(t - f) |-> s[f + i]]

\* Array.prototype.slice(from)
SliceFrom(s, from) ==
  Slice(s, from, Len(s))

Values(points) ==
  [i \in 1..Len(points) |-> points[i].value]

(***************************************************************************)
(* createSequences                                                          *)
(***************************************************************************)
\* sequences whose labels are the first values of their windows
LabelsFromWindowStart(values, windowSize) ==
  LET n == IF Len(values) > windowSize THEN Len(values) - windowSize ELSE 0
  IN [X |-> [i \in 1..n |-> SubSeq(values, i, i + windowSize - 1)],
      Y |-> [i \in 1..n |-> values[i]]]

RECURSIVE CreateSeqLoop(_, _, _, _)
CreateSeqLoop(values, windowSize, i, acc) ==
  IF i < Len(values) - windowSize
  THEN CreateSeqLoop(values, windowSize, i + 1,
         [X |-> Append(acc.X, Slice(values, i, i + windowSize)),
          Y |-> Append(acc.Y, values[i + windowSize + 1])])
  ELSE acc

createSequences(values, windowSize) ==
  CreateSeqLoop(values, windowSize, 0, [X |-> << >>, Y |-> << >>])

(***************************************************************************)
(* computeMape, the one of App.tsx: zero actuals are left out of the sum   *)
(* and of the count                                                         *)
(***************************************************************************)
\* createSequences of models/timeSeriesModel.ts
RECURSIVE TsmCreateSeqLoop(_, _, _, _)
TsmCreateSeqLoop(values, windowSize, i, acc) ==
  IF i < Len(values) - windowSize
  THEN LET window == Slice(values, i, i + windowSize)
           label == values[i + windowSize + 1]
       IN TsmCreateSeqLoop(values, windowSize, i + 1,
            [X |-> Append(acc.X, window), Y |-> Append(acc.Y, label)])
  ELSE acc

tsmCreateSequences(values, windowSize) ==
  TsmCreateSeqLoop(values, windowSize, 0, [X |-> << >>, Y |-> << >>])

RECURSIVE MapeLoop(_, _, _, _)
MapeLoop(actual, predicted, i, acc) ==
  IF i < Len(actual)
  THEN IF ~FEq(actual[i + 1], Num(0))
       THEN MapeLoop(actual, predicted, i + 1,
              [sum |-> FAdd(acc.sum,
                            FAbs(FDiv(FSub(actual[i + 1], predicted[i + 1]), actual[i + 1]))),
               count |-> acc.count + 1])
       ELSE MapeLoop(actual, predicted, i + 1, acc)
  ELSE acc

\* a MAPE over the common prefix of arrays of any lengths
MapeOverCommonPrefix(actual, predicted) ==
  LET n == IF Len(actual) < Len(predicted) THEN Len(actual) ELSE Len(predicted)
      r == MapeLoop(SubSeq(actual, 1, n), SubSeq(predicted, 1, n), 0,
                    [sum |-> Num(0), count |-> 0])
  IN IF r.count = 0 THEN NaN
     ELSE FMul(FDiv(r.sum, Num(r.count)), Num(100))

computeMape(actual, predicted) ==
  IF Len(actual) # Len(predicted) \/ Len(actual) = 0 THEN NaN
  ELSE LET r == MapeLoop(actual, predicted, 0, [sum |-> Num(0), count |-> 0])
       IN IF r.count = 0 THEN NaN
          ELSE FMul(FDiv(r.sum, Num(r.count)), Num(100))

(***************************************************************************)
(* computeMape, the one of models/timeSeriesModel.ts: zero actuals are     *)
(* left out of the sum but the sum is divided by actual.length              *)
(***************************************************************************)
RECURSIVE TsmMapeLoop(_, _, _, _)
TsmMapeLoop(actual, predicted, i, sumPercentErrors) ==
  IF i < Len(actual)
  THEN IF FEq(actual[i + 1], Num(0))
       THEN TsmMapeLoop(actual, predicted, i + 1, sumPercentErrors)
       ELSE TsmMapeLoop(actual, predicted, i + 1,
              FAdd(sumPercentErrors,
                   FAbs(FDiv(FSub(actual[i + 1], predicted[i + 1]), actual[i + 1]))))
  ELSE sumPercentErrors

tsmComputeMape(actual, predicted) ==
  IF Len(actual) = 0 \/ Len(actual) # Len(predicted) THEN NaN
  ELSE FMul(FDiv(TsmMapeLoop(actual, predicted, 0, Num(0)), Num(Len(actual))), Num(100))

(***************************************************************************)
(* JavaScript strings                                                       *)
(***************************************************************************)
DigitChars ==
  <<"0", "1", "2", "3", "4", "5", "6", "7", "8", "9">>

IsDigit(c) ==
  \E i \in 1..10 : DigitChars[i] = c

DigitVal(c) ==
  (CHOOSE i \in 1..10 : DigitChars[i] = c) - 1

RECURSIVE NatToStr(_)
NatToStr(n) ==
  IF n < 10 THEN <<DigitChars[n + 1]>>
  ELSE NatToStr(n \div 10) \o <<DigitChars[(n % 10) + 1]>>

\* String(n) of an integer
IntToStr(n) ==
  IF n < 0 THEN <<"-">> \o NatToStr(-n) ELSE NatToStr(n)

\* String.prototype.padStart(targetLength, "0")
RECURSIVE padStart(_, _)
padStart(s, targetLength) ==
  IF Len(s) >= targetLength THEN s ELSE padStart(<<"0">> \o s, targetLength)

\* String.prototype.split on a set of one-character separators: empty parts
\* are kept, a string without separator is one part
RECURSIVE SplitLoop(_, _, _, _)
SplitLoop(s, seps, i, acc) ==
  IF i > Len(s) THEN acc
  ELSE IF s[i] \in seps
       THEN SplitLoop(s, seps, i + 1, Append(acc, << >>))
       ELSE SplitLoop(s, seps, i + 1,
              [acc EXCEPT ![Len(acc)] = Append(acc[Len(acc)], s[i])])

Split(s, seps) ==
  SplitLoop(s, seps, 1, << << >> >>)

IsSpace(c) ==
  c \in {" ", "\t", "\r", "\n"}

RECURSIVE TrimStart(_)
TrimStart(s) ==
  IF s # << >> /\ IsSpace(Head(s)) THEN TrimStart(Tail(s)) ELSE s

RECURSIVE TrimEnd(_)
TrimEnd(s) ==
  IF s # << >> /\ IsSpace(s[Len(s)]) THEN TrimEnd(SubSeq(s, 1, Len(s) - 1)) ELSE s

\* String.prototype.trim
Trim(s) ==
  TrimEnd(TrimStart(s))

\* the longest prefix of s made of digits, as the pair <<value, length>>
RECURSIVE DigitPrefix(_, _, _)
DigitPrefix(s, i, acc) ==
  IF i <= Len(s) /\ IsDigit(s[i])
  THEN DigitPrefix(s, i + 1, acc * 10 + DigitVal(s[i]))
  ELSE <<acc, i - 1>>

\* parseInt(s, 10): leading white space is skipped, then an optional sign and
\* the longest run of digits; what follows is ignored; no digit gives NaN
parseInt(s) ==
  LET t == TrimStart(s)
      neg == t # << >> /\ Head(t) = "-"
      body == IF t # << >> /\ Head(t) \in {"-", "+"} THEN Tail(t) ELSE t
      p == DigitPrefix(body, 1, 0)
  IN IF p[2] = 0 THEN NaN ELSE Num(IF neg THEN -p[1] ELSE p[1])

(***************************************************************************)
(* JavaScript Date.  A Date is [valid, t]: t is its time value in minutes   *)
(* since 1970-01-01T00:00Z.  The host's local time is UTC + tzOffset        *)
(* minutes (daylight saving changes are not modelled).                      *)
(***************************************************************************)
VARIABLE tzOffset

IsLeap(y) ==
  (y % 4 = 0 /\ y % 100 # 0) \/ y % 400 = 0

DaysInMonth(y, m) ==
  CASE m \in {1, 3, 5, 7, 8, 10, 12} -> 31
    [] m \in {4, 6, 9, 11} -> 30
    [] OTHER -> IF IsLeap(y) THEN 29 ELSE 28

\* day number (days since 1970-01-01) of the civil date y-m-d, m in 1..12
DaysFromCivil(y, m, d) ==
  LET yy == IF m <= 2 THEN y - 1 ELSE y
      era == yy \div 400
      yoe == yy - era * 400
      mp == IF m > 2 THEN m - 3 ELSE m + 9
      doy == (153 * mp + 2) \div 5 + d - 1
      doe == yoe * 365 + yoe \div 4 - yoe \div 100 + doy
  IN era * 146097 + doe - 719468

\* the civil date <<y, m, d>> of a day number
CivilFromDays(z) ==
  LET zz == z + 719468
      era == zz \div 146097
      doe == zz - era * 146097
      yoe == (doe - doe \div 1460 + doe \div 36524 - doe \div 146096) \div 365
      doy == doe - (365 * yoe + yoe \div 4 - yoe \div 100)
      mp == (5 * doy + 2) \div 153
      d == doy - (153 * mp + 2) \div 5 + 1
      m == IF mp < 10 THEN mp + 3 ELSE mp - 9
  IN <<IF m <= 2 THEN yoe + era * 400 + 1 ELSE yoe + era * 400, m, d>>

\* ECMAScript MakeDay: month (0-based) and day of any integer value are
\* folded into the calendar, never rejected
MakeDay(year, month, date) ==
  DaysFromCivil(year + (month \div 12), (month % 12) + 1, 1) + date - 1

\* new Date(NaN)
InvalidDate ==
  [valid |-> FALSE, t |-> 0]

\* a Date of a given time value
DateOfTime(t) ==
  [valid |-> TRUE, t |-> t]

\* new Date(year, monthIndex, day): local midnight; a NaN argument gives an
\* invalid Date, a year of 0..99 means 1900 + year
DateOfParts(year, monthIndex, day) ==
  IF ~IsFinite(year) \/ ~IsFinite(monthIndex) \/ ~IsFinite(day) THEN InvalidDate
  ELSE LET y == IF year.n \in 0..99 THEN 1900 + year.n ELSE year.n
       IN DateOfTime(MakeDay(y, monthIndex.n, day.n) * (24 * 60) - tzOffset)

\* does s read DDDD-DD-DD ?
IsIsoShape(s) ==
  /\ Len(s) = 10
  /\ s[5] = "-" /\ s[8] = "-"
  /\ \A i \in {1, 2, 3, 4, 6, 7, 9, 10} : IsDigit(s[i])

\* new Date(string): a date-only ISO string is UTC midnight of that date;
\* what is no calendar date in that form is an invalid Date
DateOfString(s) ==
  IF ~IsIsoShape(s) THEN InvalidDate
  ELSE LET y == DigitPrefix(SubSeq(s, 1, 4), 1, 0)[1]
           m == DigitPrefix(SubSeq(s, 6, 7), 1, 0)[1]
           d == DigitPrefix(SubSeq(s, 9, 10), 1, 0)[1]
       IN IF m \in 1..12 /\ d \in 1..DaysInMonth(y, m)
          THEN DateOfTime(DaysFromCivil(y, m, d) * (24 * 60))
          ELSE InvalidDate

\* the local civil date <<y, m, d>> of a valid Date
LocalCivil(date) ==
  CivilFromDays((date.t + tzOffset) \div (24 * 60))

getFullYear(date) ==
  LocalCivil(date)[1]

\* 0-based
getMonth(date) ==
  LocalCivil(date)[2] - 1

getDate(date) ==
  LocalCivil(date)[3]

\* Date.prototype.setDate: the day of the month in local time, the local
\* time of day kept
setDate(date, dayOfMonth) ==
  LET local == date.t + tzOffset
      timeInDay == local % (24 * 60)
  IN DateOfTime(MakeDay(getFullYear(date), getMonth(date), dayOfMonth) * (24 * 60)
                + timeInDay - tzOffset)

(***************************************************************************)
(* toISODate, generateFutureDates, parseDateFromFormat                      *)
(***************************************************************************)
toISODate(d) ==
  LET y == getFullYear(d)
      m == padStart(IntToStr(getMonth(d) + 1), 2)
      day == padStart(IntToStr(getDate(d)), 2)
  IN IntToStr(y) \o <<"-">> \o m \o <<"-">> \o day

FuturoLabel(i) ==
  <<"F", "u", "t", "u", "r", "o", " ", "+">> \o IntToStr(i)

\* a fallback loop that stops one label short
RECURSIVE FuturoLoopShort(_, _, _)
FuturoLoopShort(periods, i, dates) ==
  IF i < periods THEN FuturoLoopShort(periods, i + 1, Append(dates, FuturoLabel(i)))
  ELSE dates

RECURSIVE FuturoLoop(_, _, _)
FuturoLoop(periods, i, dates) ==
  IF i <= periods THEN FuturoLoop(periods, i + 1, Append(dates, FuturoLabel(i)))
  ELSE dates

RECURSIVE FutureDatesLoop(_, _, _, _)
FutureDatesLoop(lastDate, periods, i, dates) ==
  IF i <= periods
  THEN LET next == setDate(DateOfTime(lastDate.t), getDate(DateOfTime(lastDate.t)) + i)
       IN FutureDatesLoop(lastDate, periods, i + 1, Append(dates, toISODate(next)))
  ELSE dates

generateFutureDates(lastDateStr, periods) ==
  LET lastDate == DateOfString(lastDateStr)
  IN IF ~lastDate.valid THEN FuturoLoop(periods, 1, << >>)
     ELSE FutureDatesLoop(lastDate, periods, 1, << >>)

parseDateFromFormat(dateStr, dateFormat) ==
  LET parts == Split(dateStr, {"-", "/"})
  IN IF Len(parts) < 3 THEN InvalidDate
     ELSE CASE dateFormat = "Y/M/D" ->
                 DateOfParts(parseInt(parts[1]), FSub(parseInt(parts[2]), Num(1)),
                             parseInt(parts[3]))
            [] dateFormat = "D/M/Y" ->
                 DateOfParts(parseInt(parts[3]), FSub(parseInt(parts[2]), Num(1)),
                             parseInt(parts[1]))
            [] dateFormat = "M/D/Y" ->
                 DateOfParts(parseInt(parts[3]), FSub(parseInt(parts[1]), Num(1)),
                             parseInt(parts[2]))
            [] OTHER -> InvalidDate

(***************************************************************************)
(* parseFloat and parseCSV                                                  *)
(***************************************************************************)
StartsWith(s, prefix) ==
  Len(s) >= Len(prefix) /\ SubSeq(s, 1, Len(prefix)) = prefix

RECURSIVE Pow10(_)
Pow10(e) ==
  IF e = 0 THEN 1 ELSE 10 * Pow10(e - 1)

\* parseFloat(s): leading white space is skipped, then the longest prefix that
\* reads [sign] Infinity or [sign] digits [. digits]; what follows is ignored
\* (exponents are not modelled); no such prefix gives NaN
parseFloat(s) ==
  LET t == TrimStart(s)
      neg == t # << >> /\ Head(t) = "-"
      sgn == IF neg THEN -1 ELSE 1
      body == IF t # << >> /\ Head(t) \in {"-", "+"} THEN Tail(t) ELSE t
      ip == DigitPrefix(body, 1, 0)
      rest == SubSeq(body, ip[2] + 1, Len(body))
      fp == IF rest # << >> /\ Head(rest) = "." THEN DigitPrefix(Tail(rest), 1, 0)
            ELSE <<0, 0>>
  IN IF StartsWith(body, <<"I", "n", "f", "i", "n", "i", "t", "y">>)
     THEN [k |-> "inf", n |-> sgn, d |-> 1]
     ELSE IF ip[2] = 0 /\ fp[2] = 0 THEN NaN
     ELSE Fin(sgn * (ip[1] * Pow10(fp[2]) + fp[1]), Pow10(fp[2]))

\* parseCSV(file, delimiter); lines is text.split('\n') of the file's text:
\* the lines are trimmed, the empty ones dropped, each split on the delimiter
\* into trimmed fields
parseCSV(lines, delimiter) ==
  LET trimmed == [i \in 1..Len(lines) |-> Trim(lines[i])]
      kept == SelectSeq(trimmed, LAMBDA r : Len(r) > 0)
  IN [i \in 1..Len(kept) |->
        LET cols == Split(kept[i], {delimiter})
        IN [j \in 1..Len(cols) |-> Trim(cols[j])]]

\* Array.prototype.indexOf, 0-based, -1 when absent
indexOf(arr, x) ==
  IF \E i \in 1..Len(arr) : arr[i] = x
  THEN (CHOOSE i \in 1..Len(arr) : arr[i] = x /\ \A j \in 1..(i - 1) : arr[j] # x) - 1
  ELSE -1

(***************************************************************************)
(* The files the user can pick.  series.csv has a header and SeriesRows     *)
(* rows: a date, column a = 100 + 2i on every row, column c numeric on the  *)
(* first MinPoints - 1 rows only.  header.csv is a header alone.            *)
(***************************************************************************)
SeriesRows ==
  26

\* handleTrain wants at least this many points
MinPoints ==
  20

SeriesLine(i) ==
  <<"2", "0", "2", "4", "-", "0", "1", "-">> \o padStart(IntToStr(i), 2) \o <<",">>
  \o IntToStr(100 + 2 * i) \o <<",">>
  \o (IF i < MinPoints THEN IntToStr(50 + i) ELSE <<"n", "/", "a">>)

HeaderLine ==
  <<"d", "a", "t", "e", ",", "a", ",", "c">>

FileNames ==
  {"series.csv", "header.csv"}

\* the lines of a file (the last one, after the final line feed, is empty)
FileLines(name) ==
  IF name = "series.csv"
  THEN <<HeaderLine>> \o [i \in 1..SeriesRows |-> SeriesLine(i)] \o << << >> >>
  ELSE <<HeaderLine, << >> >>

(***************************************************************************)
(* State of the App component (its useState cells), the handleUpload and    *)
(* handleTrain invocations in flight, the tf models allocated, the clock    *)
(* read by performance.now(), and the frame of a helper called on its own.  *)
(* isDragging and showTable only style the page and are left out.           *)
(***************************************************************************)
VARIABLES delimiter, dateFormat, selectedFile, error, columns, csvRows,
          dateColumnName, valueColumnName, data, isTraining, progress, timeLeft,
          testPredictions, testMape, futurePeriods, futurePredictions, futureDates,
          upload, runs, models, now, call

wizardVars ==
  <<delimiter, dateFormat, selectedFile, columns, csvRows, dateColumnName,
    valueColumnName, data>>

resultVars ==
  <<testPredictions, testMape, futurePredictions, futureDates>>

trainVars ==
  <<isTraining, progress, timeLeft>>

envVars ==
  <<tzOffset, call>>

vars ==
  <<wizardVars, resultVars, trainVars, envVars, error, futurePeriods, upload, runs,
    models, now>>

\* null of a string-valued cell, null of a number-valued cell
Null ==
  "null"

NullNum ==
  [k |-> "null", n |-> 0, d |-> 1]

NoUpload ==
  [pending |-> FALSE, file |-> Null, delimiter |-> Null]

NoCall ==
  [fn |-> "none"]

(***************************************************************************)
(* Bounds and input alphabets                                               *)
(***************************************************************************)
\* sweeps started per behaviour, when they run one after the other
MaxSweeps ==
  1

\* sweeps started per behaviour, when they may overlap
MaxRuns ==
  2

\* largest reading of performance.now()
MaxClock ==
  1

\* host time zones, minutes east of UTC
TZOffsets ==
  {-300, 0, 120}

Delimiters ==
  {",", ";"}

DateFormats ==
  {"Y/M/D", "D/M/Y"}

\* values typed into the "dias a futuro" input
FuturePeriodsInputs ==
  {-1, 0, 2}

\* what training can leave in a network: it repeats the last value of the
\* window, it extends the line through the window's first and last value, or
\* it has diverged and answers NaN
Weights ==
  {"persist", "trend", "diverged"}

(***************************************************************************)
(* tf models                                                                *)
(***************************************************************************)
\* tf.sequential() + lstm + dense + compile for one configuration
NewModel(run, windowSize, lstmUnits) ==
  [run |-> run, windowSize |-> windowSize, units |-> lstmUnits,
   weights |-> "init", fitted |-> FALSE, disposed |-> 0]

\* model.dispose()
Dispose(ms, id) ==
  [ms EXCEPT ![id].disposed = @ + 1, ![id].weights = "freed"]

\* model.predict(tensor3d([window], [1, windowSize, 1])).dataSync()[0]
Predict(m, window) ==
  LET last == window[Len(window)]
  IN CASE m.weights = "trend" ->
            FAdd(last, FDiv(FSub(last, window[1]), Num(Len(window) - 1)))
       [] m.weights = "diverged" -> NaN
       [] OTHER -> last

(***************************************************************************)
(* handleTransform                                                          *)
(***************************************************************************)
RECURSIVE TransformLoop(_, _, _, _, _, _)
TransformLoop(rows, dateIndex, valueIndex, fmt, i, transformed) ==
  IF i > Len(rows) THEN transformed
  ELSE LET row == rows[i]
           rawDateStr == IF dateIndex < Len(row) THEN row[dateIndex + 1] ELSE << >>
           val == IF valueIndex < Len(row) THEN parseFloat(row[valueIndex + 1]) ELSE NaN
           parsedDate == parseDateFromFormat(rawDateStr, fmt)
       IN IF rawDateStr = << >> \/ IsNaN(val)
          THEN TransformLoop(rows, dateIndex, valueIndex, fmt, i + 1, transformed)
          ELSE IF ~parsedDate.valid
          THEN TransformLoop(rows, dateIndex, valueIndex, fmt, i + 1, transformed)
          ELSE TransformLoop(rows, dateIndex, valueIndex, fmt, i + 1,
                 Append(transformed, [date |-> toISODate(parsedDate), value |-> val]))

(***************************************************************************)
(* handleTrain: the sweep over windowSizes x lstmUnitsArray.  A run is one  *)
(* invocation; its record holds the locals of handleTrain and of the        *)
(* trainAndEvaluate call it awaits.  pc is "fit" while model.fit is awaited,*)
(* "ret" when trainAndEvaluate has returned and handleTrain's continuation  *)
(* is the pending microtask, "done" or "failed" after the return.  mapes    *)
(* logs the error trainAndEvaluate returned for each configuration, testXs  *)
(* and futureXs the windows handed to bestModel.predict, tensorX / tensorY   *)
(* are the tensors model.fit is awaited on (disposed after it), shown the   *)
(* results                                                                  *)
(* that were on the page when the button was clicked, stale whether a       *)
(* handler that clears the results has run since the click.  The record of an     *)
(* invocation that has returned is kept, for observation, until the next    *)
(* click on "Entrenar modelo" and is then Gone.                             *)
(***************************************************************************)
windowSizes ==
  <<3, 5>>

lstmUnitsArray ==
  <<32, 64>>

totalCombos ==
  Len(windowSizes) * Len(lstmUnitsArray)

\* the c-th configuration (c from 0) of the nested for loops
ComboW(c) ==
  windowSizes[(c \div Len(lstmUnitsArray)) + 1]

ComboU(c) ==
  lstmUnitsArray[(c % Len(lstmUnitsArray)) + 1]

splitIndex(points) ==
  (Len(points) * 8) \div 10

\* a training split that takes the whole series
WholeSeries(points) ==
  points

\* data.slice(0, splitIndex) and data.slice(splitIndex)
TrainData(points) ==
  Slice(points, 0, splitIndex(points))

TestData(points) ==
  SliceFrom(points, splitIndex(points))

NewRun(points, periods, startTime) ==
  [pc |-> "fit", data |-> points, futurePeriods |-> periods,
   combo |-> 0, combosProcessed |-> 0,
   bestMape |-> PosInf, bestModel |-> 0, bestWindowSize |-> 3,
   startTime |-> startTime, model |-> 0, mape |-> NullNum, mapes |-> << >>,
   predictionsOnTest |-> << >>, finalMape |-> NullNum, testXs |-> << >>,
   futureForecasts |-> << >>, futureXs |-> << >>, futureDts |-> << >>,
   shown |-> << << >>, NullNum, << >>, << >> >>,
   tensorX |-> << >>, tensorY |-> << >>, stale |-> FALSE]

Gone ==
  [NewRun(<< >>, 0, 0) EXCEPT !.pc = "gone"]

\* the frames of the invocations that have returned are dropped
Collect(rs) ==
  [r \in 1..Len(rs) |-> IF rs[r].pc \in {"done", "failed", "gone"} THEN Gone ELSE rs[r]]

\* one of the handlers that clear the results has run: the invocations in
\* flight were started before it
MarkStale(rs) ==
  [r \in 1..Len(rs) |-> IF rs[r].pc \in {"fit", "ret"} THEN [rs[r] EXCEPT !.stale = TRUE]
                        ELSE rs[r]]

\* trainAndEvaluate up to "await model.fit", with the new model id
TrainCall(run, c, id) ==
  LET seqs == createSequences(Values(TrainData(run.data)), ComboW(c))
  IN [run EXCEPT !.pc = "fit", !.combo = c, !.model = id, !.mape = NullNum,
                 !.tensorX = seqs.X, !.tensorY = seqs.Y]

\* trainAndEvaluate after the fit: one prediction per test index from
\* windowSize on, each from the windowSize test values before it
RECURSIVE EvalLoop(_, _, _, _, _)
EvalLoop(m, testValues, windowSize, i, predicted) ==
  IF i < Len(testValues)
  THEN EvalLoop(m, testValues, windowSize, i + 1,
         Append(predicted, Predict(m, Slice(testValues, i - windowSize, i))))
  ELSE predicted

EvalMape(m, testData, windowSize) ==
  LET testValues == Values(testData)
      predicted == EvalLoop(m, testValues, windowSize, windowSize, << >>)
      actual == SliceFrom(testValues, windowSize)
  IN computeMape(actual, predicted)

\* a comparison under which an equal error also replaces the incumbent
BetterOrEqual(mape, bestMape) ==
  FLt(mape, bestMape) \/ FEq(mape, bestMape)

\* a comparison that adopts every candidate the incumbent does not beat, an
\* undefined error included
NotWorse(mape, bestMape) ==
  ~FLt(bestMape, mape)

\* a comparison that adopts whatever comes first, as if (!bestModel || ...)
BetterOrFirst(mape, bestMape) ==
  FLt(mape, bestMape) \/ bestMape = PosInf

\* if (mape < bestMape)
Better(mape, bestMape) ==
  FLt(mape, bestMape)

\* a selection that adopts the candidate without disposing the previous best
SelectKeepPrevious(run, ms) ==
  IF Better(run.mape, run.bestMape)
  THEN [run |-> [run EXCEPT !.bestMape = run.mape, !.bestModel = run.model,
                            !.bestWindowSize = ComboW(run.combo)],
        models |-> ms]
  ELSE [run |-> run, models |-> Dispose(ms, run.model)]

\* a selection that keeps the candidate that lost
SelectKeepLoser(run, ms) ==
  IF Better(run.mape, run.bestMape)
  THEN [run |-> [run EXCEPT !.bestMape = run.mape, !.bestModel = run.model,
                            !.bestWindowSize = ComboW(run.combo)],
        models |-> IF run.bestModel # 0 THEN Dispose(ms, run.bestModel) ELSE ms]
  ELSE [run |-> run, models |-> ms]

\* the if/else after trainAndEvaluate: adopt the candidate and dispose the
\* previous best, or dispose the candidate
Select(run, ms) ==
  IF Better(run.mape, run.bestMape)
  THEN [run |-> [run EXCEPT !.bestMape = run.mape, !.bestModel = run.model,
                            !.bestWindowSize = ComboW(run.combo)],
        models |-> IF run.bestModel # 0 THEN Dispose(ms, run.bestModel) ELSE ms]
  ELSE [run |-> run, models |-> Dispose(ms, run.model)]

\* Math.round(n / d * 100) for n, d > 0
RoundPercent(n, d) ==
  (2 * 100 * n + d) \div (2 * d)

\* estRemaining / 1000 after combosProcessed configurations
EstRemaining(elapsed, combosProcessed) ==
  FDiv(FMul(FDiv(Num(elapsed), Num(combosProcessed)), Num(totalCombos - combosProcessed)),
       Num(1000))

\* a test loop that feeds each prediction back into the next window
RECURSIVE TestLoopFed(_, _, _, _, _)
TestLoopFed(m, testValues, bestWindowSize, i, acc) ==
  IF i < Len(testValues)
  THEN LET window == IF acc.xs = << >> THEN Slice(testValues, i - bestWindowSize, i)
                     ELSE Append(SliceFrom(acc.xs[Len(acc.xs)], 1),
                                 acc.preds[Len(acc.preds)])
       IN TestLoopFed(m, testValues, bestWindowSize, i + 1,
            [preds |-> Append(acc.preds, Predict(m, window)),
             xs |-> Append(acc.xs, window)])
  ELSE acc

\* the test loop of handleTrain
RECURSIVE TestLoop(_, _, _, _, _)
TestLoop(m, testValues, bestWindowSize, i, acc) ==
  IF i < Len(testValues)
  THEN LET window == Slice(testValues, i - bestWindowSize, i)
       IN TestLoop(m, testValues, bestWindowSize, i + 1,
            [preds |-> Append(acc.preds, Predict(m, window)),
             xs |-> Append(acc.xs, window)])
  ELSE acc

\* a window that takes the prediction in without dropping its oldest value
GrowWindow(currentWindow, val) ==
  Append(currentWindow, val)

\* currentWindow = [...currentWindow.slice(1), val]
NextWindow(currentWindow, val) ==
  Append(SliceFrom(currentWindow, 1), val)

\* the seed of the future loop
SeedWindow(fullValues, bestWindowSize) ==
  SliceFrom(fullValues, -bestWindowSize)

\* a future loop that runs once more than asked
RECURSIVE FutureLoopInclusive(_, _, _, _, _)
FutureLoopInclusive(m, currentWindow, periods, i, acc) ==
  IF i <= periods
  THEN LET val == Predict(m, currentWindow)
       IN FutureLoopInclusive(m, NextWindow(currentWindow, val), periods, i + 1,
            [preds |-> Append(acc.preds, val), xs |-> Append(acc.xs, currentWindow)])
  ELSE acc

\* the future loop of handleTrain
RECURSIVE FutureLoop(_, _, _, _, _)
FutureLoop(m, currentWindow, periods, i, acc) ==
  IF i < periods
  THEN LET val == Predict(m, currentWindow)
       IN FutureLoop(m, NextWindow(currentWindow, val), periods, i + 1,
            [preds |-> Append(acc.preds, val), xs |-> Append(acc.xs, currentWindow)])
  ELSE acc

\* handleTrain from "// Test" to its end, for a run that has a best model
Outcome(run, ms) ==
  LET m == ms[run.bestModel]
      testValues == Values(TestData(run.data))
      test == TestLoop(m, testValues, run.bestWindowSize, run.bestWindowSize,
                       [preds |-> << >>, xs |-> << >>])
      actualTest == SliceFrom(testValues, run.bestWindowSize)
      future == FutureLoop(m, SeedWindow(Values(run.data), run.bestWindowSize),
                           run.futurePeriods, 0, [preds |-> << >>, xs |-> << >>])
      lastDate == run.data[Len(run.data)].date
  IN [run EXCEPT !.pc = "done",
                 !.predictionsOnTest = test.preds, !.testXs = test.xs,
                 !.finalMape = computeMape(actualTest, test.preds),
                 !.futureForecasts = future.preds, !.futureXs = future.xs,
                 !.futureDts = generateFutureDates(lastDate, run.futurePeriods)]

(***************************************************************************)
(* What is on the page: step 1 (upload), step 2 (columns), step 3 (data and *)
(* training) are rendered under these conditions.  A continuation that is   *)
(* the pending microtask runs before any event or timer.                    *)
(***************************************************************************)
Stage1 ==
  Len(columns) = 0 /\ Len(csvRows) = 0

Stage2 ==
  Len(columns) > 0 /\ Len(csvRows) > 0 /\ Len(data) = 0

Stage3 ==
  Len(data) > 0

NoMicrotask ==
  \A r \in 1..Len(runs) : runs[r].pc # "ret"

ClearResults ==
  /\ testPredictions' = << >>
  /\ testMape' = NullNum
  /\ futurePredictions' = << >>
  /\ futureDates' = << >>

(***************************************************************************)
(* Step 1                                                                   *)
(***************************************************************************)
setDelimiter ==
  /\ Stage1 /\ NoMicrotask
  /\ \E c \in Delimiters : delimiter' = c
  /\ UNCHANGED <<dateFormat, selectedFile, columns, csvRows, dateColumnName,
                 valueColumnName, data, resultVars, trainVars, envVars, error,
                 futurePeriods, upload, runs, models, now>>

setDateFormat ==
  /\ Stage1 /\ NoMicrotask
  /\ \E f \in DateFormats : dateFormat' = f
  /\ UNCHANGED <<delimiter, selectedFile, columns, csvRows, dateColumnName,
                 valueColumnName, data, resultVars, trainVars, envVars, error,
                 futurePeriods, upload, runs, models, now>>

\* handleFileChange and handleDrop
handleFileChange ==
  /\ Stage1 /\ NoMicrotask
  /\ \E f \in FileNames : selectedFile' = f
  /\ UNCHANGED <<delimiter, dateFormat, columns, csvRows, dateColumnName,
                 valueColumnName, data, resultVars, trainVars, envVars, error,
                 futurePeriods, upload, runs, models, now>>

\* handleUpload up to "await parseCSV": the file is being read (one read in
\* flight at a time)
handleUpload ==
  /\ Stage1 /\ NoMicrotask
  /\ selectedFile # Null
  /\ ~upload.pending
  /\ upload' = [pending |-> TRUE, file |-> selectedFile, delimiter |-> delimiter]
  /\ UNCHANGED <<wizardVars, resultVars, trainVars, envVars, error, futurePeriods,
                 runs, models, now>>

\* handleUpload after the read
uploadLoaded ==
  /\ upload.pending /\ NoMicrotask
  /\ upload' = NoUpload
  /\ LET rows == parseCSV(FileLines(upload.file), upload.delimiter)
     IN IF Len(rows) < 2
        THEN /\ error' = "El CSV necesita al menos una fila de cabecera y datos."
             /\ UNCHANGED <<columns, csvRows, data, dateColumnName, valueColumnName,
                            resultVars, runs>>
        ELSE /\ columns' = rows[1]
             /\ csvRows' = SliceFrom(rows, 1)
             /\ data' = << >>
             /\ dateColumnName' = << >>
             /\ valueColumnName' = << >>
             /\ ClearResults
             /\ error' = Null
             /\ runs' = MarkStale(runs)
  /\ UNCHANGED <<delimiter, dateFormat, selectedFile, trainVars, envVars,
                 futurePeriods, models, now>>

(***************************************************************************)
(* Step 2                                                                   *)
(***************************************************************************)
ColumnOptions ==
  {<< >>} \cup {columns[i] : i \in 1..Len(columns)}

\* the options the user picks for the date and for the value
DatePicks ==
  {<< >>, <<"d", "a", "t", "e">>}

ValuePicks ==
  {<< >>, <<"a">>, <<"c">>}

setDateColumnName ==
  /\ Stage2 /\ NoMicrotask
  /\ \E c \in ColumnOptions \cap DatePicks : dateColumnName' = c
  /\ UNCHANGED <<delimiter, dateFormat, selectedFile, columns, csvRows,
                 valueColumnName, data, resultVars, trainVars, envVars, error,
                 futurePeriods, upload, runs, models, now>>

setValueColumnName ==
  /\ Stage2 /\ NoMicrotask
  /\ \E c \in ColumnOptions \cap ValuePicks : valueColumnName' = c
  /\ UNCHANGED <<delimiter, dateFormat, selectedFile, columns, csvRows,
                 dateColumnName, data, resultVars, trainVars, envVars, error,
                 futurePeriods, upload, runs, models, now>>

handleBackToCSV ==
  /\ Stage2 /\ NoMicrotask
  /\ columns' = << >>
  /\ csvRows' = << >>
  /\ data' = << >>
  /\ selectedFile' = Null
  /\ ClearResults
  /\ error' = Null
  /\ runs' = MarkStale(runs)
  /\ UNCHANGED <<delimiter, dateFormat, dateColumnName, valueColumnName, trainVars,
                 envVars, futurePeriods, upload, models, now>>

handleTransform ==
  /\ Stage2 /\ NoMicrotask
  /\ LET dateIndex == indexOf(columns, dateColumnName)
         valueIndex == indexOf(columns, valueColumnName)
     IN IF dateColumnName = << >> \/ valueColumnName = << >>
        THEN /\ error' = "Por favor, indica cual columna es la fecha y cual es el valor numerico."
             /\ UNCHANGED <<data, resultVars, runs>>
        ELSE IF dateIndex = -1 \/ valueIndex = -1
        THEN /\ error' = "No se encontraron esas columnas. Revisa tu seleccion."
             /\ UNCHANGED <<data, resultVars, runs>>
        ELSE /\ data' = TransformLoop(csvRows, dateIndex, valueIndex, dateFormat, 1, << >>)
             /\ error' = Null
             /\ ClearResults
             /\ runs' = MarkStale(runs)
  /\ UNCHANGED <<delimiter, dateFormat, selectedFile, columns, csvRows,
                 dateColumnName, valueColumnName, trainVars, envVars, futurePeriods,
                 upload, models, now>>

(***************************************************************************)
(* Step 3                                                                   *)
(***************************************************************************)
handleBackToColumns ==
  /\ Stage3 /\ NoMicrotask
  /\ data' = << >>
  /\ dateColumnName' = << >>
  /\ valueColumnName' = << >>
  /\ ClearResults
  /\ error' = Null
  /\ runs' = MarkStale(runs)
  /\ UNCHANGED <<delimiter, dateFormat, selectedFile, columns, csvRows, trainVars,
                 envVars, futurePeriods, upload, models, now>>

setFuturePeriods ==
  /\ Stage3 /\ NoMicrotask
  /\ \E n \in FuturePeriodsInputs : futurePeriods' = n
  /\ UNCHANGED <<wizardVars, resultVars, trainVars, envVars, error, upload, runs,
                 models, now>>

handleBackToData ==
  /\ Stage3 /\ NoMicrotask
  /\ ClearResults
  /\ isTraining' = FALSE
  /\ progress' = 0
  /\ timeLeft' = NullNum
  /\ error' = Null
  /\ runs' = MarkStale(runs)
  /\ UNCHANGED <<wizardVars, envVars, futurePeriods, upload, models, now>>

\* a click on "Entrenar modelo" that starts the sweep whatever the length of
\* the series
handleTrainAnyLength ==
  /\ Stage3 /\ NoMicrotask
  /\ ~isTraining
  /\ error' = Null
  /\ isTraining' = TRUE
  /\ progress' = 0
  /\ timeLeft' = NullNum
  /\ ClearResults
  /\ runs' = Append(Collect(runs),
                    [TrainCall(NewRun(data, futurePeriods, now), 0, Len(models) + 1)
                       EXCEPT !.shown = resultVars])
  /\ models' = Append(models, NewModel(Len(runs) + 1, ComboW(0), ComboU(0)))
  /\ UNCHANGED now
  /\ UNCHANGED <<wizardVars, envVars, futurePeriods, upload>>

\* the click on "Entrenar modelo" (the button is disabled while isTraining):
\* handleTrain up to its first "await model.fit"
handleTrain ==
  /\ Stage3 /\ NoMicrotask
  /\ ~isTraining
  /\ IF Len(data) < MinPoints
     THEN /\ error' = "Se necesitan al menos 20 datos para entrenar."
          /\ UNCHANGED <<resultVars, trainVars, runs, models, now>>
     ELSE /\ error' = Null
          /\ isTraining' = TRUE
          /\ progress' = 0
          /\ timeLeft' = NullNum
          /\ ClearResults
          /\ runs' = Append(Collect(runs),
                            [TrainCall(NewRun(data, futurePeriods, now), 0, Len(models) + 1)
                               EXCEPT !.shown = resultVars])
          /\ models' = Append(models, NewModel(Len(runs) + 1, ComboW(0), ComboU(0)))
          /\ UNCHANGED now
  /\ UNCHANGED <<wizardVars, envVars, futurePeriods, upload>>

\* model.fit of run r resolves, leaving weights w in the model;
\* trainAndEvaluate runs to its return
fitResolvedWith(r, w) ==
  /\ runs[r].pc = "fit" /\ NoMicrotask
  /\ \E id \in {runs[r].model} :
       \E ms \in {[models EXCEPT ![id].weights = w, ![id].fitted = TRUE]} :
          \E mape \in {EvalMape(ms[id], TestData(runs[r].data), ms[id].windowSize)} :
             /\ models' = ms
             /\ runs' = [runs EXCEPT ![r].pc = "ret", ![r].mape = mape,
                                     ![r].mapes = Append(@, mape),
                                     ![r].tensorX = << >>, ![r].tensorY = << >>]
  /\ UNCHANGED <<wizardVars, resultVars, trainVars, envVars, error, futurePeriods,
                 upload, now>>

fitResolved(r) ==
  \E w \in Weights : fitResolvedWith(r, w)

\* handleTrain of run r resumes after "await trainAndEvaluate": selection,
\* progress, then the next configuration or, after the last, the outcome
handleTrainResume(r) ==
  /\ runs[r].pc = "ret"
  /\ \E sel \in {Select(runs[r], models)} :
       \E run \in {[sel.run EXCEPT !.combosProcessed = @ + 1]} :
          /\ progress' = RoundPercent(run.combosProcessed, totalCombos)
          /\ timeLeft' = EstRemaining(now - run.startTime, run.combosProcessed)
          /\ IF run.combo + 1 < totalCombos
             THEN /\ runs' = [runs EXCEPT
                               ![r] = TrainCall(run, run.combo + 1, Len(sel.models) + 1)]
                  /\ models' = Append(sel.models,
                                      NewModel(r, ComboW(run.combo + 1), ComboU(run.combo + 1)))
                  /\ UNCHANGED <<resultVars, isTraining, error>>
             ELSE IF run.bestModel = 0
             THEN /\ error' = "No se pudo entrenar ningun modelo."
                  /\ isTraining' = FALSE
                  /\ runs' = [runs EXCEPT ![r] = [run EXCEPT !.pc = "failed"]]
                  /\ models' = sel.models
                  /\ UNCHANGED resultVars
             ELSE \E out \in {Outcome(run, sel.models)} :
                     /\ testMape' = out.finalMape
                     /\ testPredictions' = out.predictionsOnTest
                     /\ futurePredictions' = out.futureForecasts
                     /\ futureDates' = out.futureDts
                     /\ isTraining' = FALSE
                     /\ runs' = [runs EXCEPT ![r] = out]
                     /\ models' = sel.models
                     /\ UNCHANGED error
  /\ UNCHANGED <<wizardVars, envVars, futurePeriods, upload, now>>

\* time passes between two tasks: performance.now() reads one more
tick ==
  /\ NoMicrotask
  /\ now < MaxClock
  /\ now' = now + 1
  /\ UNCHANGED <<wizardVars, resultVars, trainVars, envVars, error, futurePeriods,
                 upload, runs, models>>

(***************************************************************************)
(* The App                                                                  *)
(***************************************************************************)
\* the useState cells as App() first renders them, nothing in flight
AppInit ==
  /\ delimiter = ","
  /\ dateFormat = "Y/M/D"
  /\ selectedFile = Null
  /\ error = Null
  /\ columns = << >>
  /\ csvRows = << >>
  /\ dateColumnName = << >>
  /\ valueColumnName = << >>
  /\ data = << >>
  /\ isTraining = FALSE
  /\ progress = 0
  /\ timeLeft = NullNum
  /\ testPredictions = << >>
  /\ testMape = NullNum
  /\ futurePeriods = 5
  /\ futurePredictions = << >>
  /\ futureDates = << >>
  /\ upload = NoUpload
  /\ runs = << >>
  /\ models = << >>
  /\ now = 0

Init ==
  /\ AppInit
  /\ call = NoCall
  /\ tzOffset \in TZOffsets

\* the state after series.csv was read with "," and transformed with the
\* date column and value column a: step 3 is on the page
InitLoaded ==
  /\ delimiter = ","
  /\ dateFormat = "Y/M/D"
  /\ selectedFile = "series.csv"
  /\ error = Null
  /\ columns = parseCSV(FileLines("series.csv"), ",")[1]
  /\ csvRows = SliceFrom(parseCSV(FileLines("series.csv"), ","), 1)
  /\ dateColumnName = <<"d", "a", "t", "e">>
  /\ valueColumnName = <<"a">>
  /\ tzOffset \in TZOffsets
  /\ data = TransformLoop(csvRows, indexOf(columns, dateColumnName),
                          indexOf(columns, valueColumnName), dateFormat, 1, << >>)
  /\ isTraining = FALSE
  /\ progress = 0
  /\ timeLeft = NullNum
  /\ testPredictions = << >>
  /\ testMape = NullNum
  /\ futurePeriods = 5
  /\ futurePredictions = << >>
  /\ futureDates = << >>
  /\ upload = NoUpload
  /\ runs = << >>
  /\ models = << >>
  /\ now = 0
  /\ call = NoCall

\* sweeps one after the other on the loaded series
NextSweep ==
  \/ setFuturePeriods
  \/ handleTrain /\ Len(runs') <= MaxSweeps
  \/ \E r \in 1..Len(runs) : fitResolved(r)
  \/ \E r \in 1..Len(runs) : handleTrainResume(r)

SpecSweep ==
  InitLoaded /\ [][NextSweep]_vars

\* the "Volver atras" button of step 3 lets a second sweep start while the
\* first is in flight; time passes; every training ends in the "trend" weights
NextTrain ==
  \/ tick
  \/ handleBackToData
  \/ handleTrain /\ Len(runs') <= MaxRuns
  \/ \E r \in 1..Len(runs) : fitResolvedWith(r, "trend")
  \/ \E r \in 1..Len(runs) : handleTrainResume(r)

SpecTrain ==
  InitLoaded /\ [][NextTrain]_vars

Next ==
  \/ setDelimiter
  \/ setDateFormat
  \/ handleFileChange
  \/ handleUpload
  \/ uploadLoaded
  \/ setDateColumnName
  \/ setValueColumnName
  \/ handleBackToCSV
  \/ handleTransform
  \/ handleBackToColumns
  \/ setFuturePeriods
  \/ handleBackToData
  \/ handleTrain /\ Len(runs') <= MaxSweeps
  \/ \E r \in 1..Len(runs) : fitResolvedWith(r, "trend")
  \/ \E r \in 1..Len(runs) : handleTrainResume(r)

Spec ==
  Init /\ [][Next]_vars

(***************************************************************************)
(* The helpers called on their own: call holds the arguments and, once the  *)
(* helper has returned, its result.                                         *)
(***************************************************************************)
appVars ==
  <<wizardVars, resultVars, trainVars, error, futurePeriods, upload, runs, models, now>>

SeqsUpTo(S, n) ==
  UNION {[1..k -> S] : k \in 0..n}

\* longest actual / predicted array
MaxLen ==
  2

MapeValues ==
  {Num(0), Num(5), Num(10), Num(12)}

InitMape ==
  /\ AppInit
  /\ tzOffset \in TZOffsets
  /\ \E actual \in SeqsUpTo(MapeValues, MaxLen), predicted \in SeqsUpTo(MapeValues, MaxLen) :
       call = [fn |-> "computeMape", actual |-> actual, predicted |-> predicted,
               appReturned |-> FALSE, app |-> NaN, tsmReturned |-> FALSE, tsm |-> NaN]

\* computeMape of App.tsx is called
callComputeMape ==
  /\ call.fn = "computeMape" /\ ~call.appReturned
  /\ call' = [call EXCEPT !.appReturned = TRUE,
                          !.app = computeMape(call.actual, call.predicted)]
  /\ UNCHANGED <<appVars, tzOffset>>

\* computeMape of models/timeSeriesModel.ts is called
callTsmComputeMape ==
  /\ call.fn = "computeMape" /\ ~call.tsmReturned
  /\ call' = [call EXCEPT !.tsmReturned = TRUE,
                          !.tsm = tsmComputeMape(call.actual, call.predicted)]
  /\ UNCHANGED <<appVars, tzOffset>>

NextMape ==
  \/ callComputeMape
  \/ callTsmComputeMape

SpecMape ==
  InitMape /\ [][NextMape]_vars

\* the date strings of the rows: a year, a month and a day written in the
\* order of the format with one of the two separators, and some that are not
\* three numbers
DateYears ==
  {2023, 2024}

DateMonths ==
  {0, 1, 2, 12, 13}

DateDays ==
  {0, 1, 13, 29, 30, 31, 32}

AllDateFormats ==
  {"Y/M/D", "D/M/Y", "M/D/Y"}

DateText(fmt, y, m, d, sep) ==
  LET yy == IntToStr(y)
      mm == padStart(IntToStr(m), 2)
      dd == padStart(IntToStr(d), 2)
  IN CASE fmt = "Y/M/D" -> yy \o <<sep>> \o mm \o <<sep>> \o dd
       [] fmt = "D/M/Y" -> dd \o <<sep>> \o mm \o <<sep>> \o yy
       [] OTHER -> mm \o <<sep>> \o dd \o <<sep>> \o yy

OddDateTexts ==
  {<< >>,
   <<"2", "0", "2", "4", "-", "0", "3">>,
   <<"2", "0", "2", "4", "/", "0", "3", "/", "1", "5", "/", "9">>,
   <<"1", "5", "/", "0", "3", "/", "2", "0", "2", "4", "x">>,
   <<"1", "5", "/", "m", "a", "r", "/", "2", "0", "2", "4">>}

\* the three formats and one that parseDateFromFormat does not know
DateFormatInputs ==
  AllDateFormats \cup {"Y-M-D"}

InitDate ==
  /\ AppInit
  /\ tzOffset \in TZOffsets
  /\ \E fmt \in DateFormatInputs :
       \E s \in {DateText(fmt, y, m, d, sep) :
                   y \in DateYears, m \in DateMonths, d \in DateDays, sep \in {"/", "-"}}
                \cup OddDateTexts :
          call = [fn |-> "parseDateFromFormat", dateStr |-> s, dateFormat |-> fmt,
                  returned |-> FALSE, ret |-> InvalidDate, iso |-> << >>]

\* handleTransform normalizes the date of one row: parseDateFromFormat, then
\* toISODate unless the Date is invalid
callParseDateFromFormat ==
  /\ call.fn = "parseDateFromFormat" /\ ~call.returned
  /\ \E parsedDate \in {parseDateFromFormat(call.dateStr, call.dateFormat)} :
       call' = [call EXCEPT !.returned = TRUE, !.ret = parsedDate,
                            !.iso = IF parsedDate.valid THEN toISODate(parsedDate)
                                    ELSE << >>]
  /\ UNCHANGED <<appVars, tzOffset>>

NextDate ==
  callParseDateFromFormat

SpecDate ==
  InitDate /\ [][NextDate]_vars

\* largest number of future periods asked of generateFutureDates
MaxCount ==
  3

\* last dates of a series: <<year, month, day>>
LastDates ==
  {<<2024, 3, 15>>, <<2024, 2, 28>>, <<2023, 2, 28>>, <<2024, 12, 31>>,
   <<2024, 1, 31>>, <<2024, 3, 30>>}

CanonicalText(y, m, d) ==
  NatToStr(y) \o <<"-">> \o padStart(NatToStr(m), 2) \o <<"-">> \o padStart(NatToStr(d), 2)

\* strings new Date() makes no date of
UnparsableTexts ==
  {<<"n", "o", "t", "-", "a", "-", "d", "a", "t", "e">>,
   <<"2", "0", "2", "4", "-", "1", "3", "-", "4", "5">>,
   << >>}

InitFuture ==
  /\ AppInit
  /\ tzOffset \in TZOffsets
  /\ \E s \in {CanonicalText(c[1], c[2], c[3]) : c \in LastDates} \cup UnparsableTexts :
       \E periods \in 0..MaxCount :
          call = [fn |-> "generateFutureDates", lastDateStr |-> s, periods |-> periods,
                  returned |-> FALSE, ret |-> << >>]

callGenerateFutureDates ==
  /\ call.fn = "generateFutureDates" /\ ~call.returned
  /\ call' = [call EXCEPT !.returned = TRUE,
                          !.ret = generateFutureDates(call.lastDateStr, call.periods)]
  /\ UNCHANGED <<appVars, tzOffset>>

NextFuture ==
  callGenerateFutureDates

SpecFuture ==
  InitFuture /\ [][NextFuture]_vars

(***************************************************************************)
(* Properties of the sweep (SpecSweep)                                      *)
(***************************************************************************)
\* the invocations of handleTrain whose frame can still be observed
Sweeps ==
  {r \in 1..Len(runs) : runs[r].pc # "gone"}

\* the models run r has created; ModelOf(r, c) is the c-th of them
ModelsOf(r) ==
  {id \in 1..Len(models) : models[id].run = r}

ModelOf(r, c) ==
  CHOOSE id \in ModelsOf(r) : Cardinality({j \in ModelsOf(r) : j <= id}) = c

Undisposed(r) ==
  {id \in ModelsOf(r) : models[id].disposed = 0}

Trained(r) ==
  {id \in Undisposed(r) : models[id].fitted}

\* an error a later one can be compared with
Comparable(x) ==
  x.k = "fin"

\* the errors run r has compared so far, in the order of the configurations
Compared(r) ==
  IF runs[r].pc = "ret" THEN SubSeq(runs[r].mapes, 1, Len(runs[r].mapes) - 1)
  ELSE runs[r].mapes

\* the first position of errs that holds the least comparable error, 0 if
\* no error is comparable
FirstMinimum(errs) ==
  LET cmp == {c \in 1..Len(errs) : Comparable(errs[c])}
      least(c) == \A e \in cmp : errs[c].n * errs[e].d <= errs[e].n * errs[c].d
  IN IF cmp = {} THEN 0
     ELSE CHOOSE c \in cmp : least(c) /\ \A e \in cmp : least(e) => c <= e

\* C1: the configurations are tried in the order (3,32), (3,64), (5,32),
\* (5,64), and once a sweep has compared some of them the retained best model
\* is the model of the first configuration whose error is the least
\* comparable error, with that configuration's windowSize and error (and no
\* model at all when no error is comparable); in particular at the end of
\* the sweep, and in particular when two configurations tie.
C1_FirstMinimumRetained ==
  \A r \in Sweeps :
     LET run == runs[r]
         first == FirstMinimum(Compared(r))
     IN /\ \A c \in 1..Len(run.mapes) :
             /\ models[ModelOf(r, c)].windowSize = <<3, 3, 5, 5>>[c]
             /\ models[ModelOf(r, c)].units = <<32, 64, 32, 64>>[c]
        /\ run.pc \in {"done", "failed"} => Len(run.mapes) = 4
        /\ IF first = 0 THEN run.bestModel = 0
           ELSE /\ run.bestModel = ModelOf(r, first)
                /\ run.bestWindowSize = <<3, 3, 5, 5>>[first]
                /\ run.bestMape = run.mapes[first]

\* a finished sweep in which the second configuration beat the first and the
\* third tied with the second: the second is retained
C1_Witness ==
  \E r \in Sweeps :
     /\ runs[r].pc = "done"
     /\ Comparable(runs[r].mapes[1])
     /\ FLt(runs[r].mapes[2], runs[r].mapes[1])
     /\ runs[r].mapes[3] = runs[r].mapes[2]
     /\ ~FLt(runs[r].mapes[4], runs[r].mapes[2])
     /\ runs[r].bestModel = ModelOf(r, 2)
     /\ runs[r].bestWindowSize = 3

\* C2: at every point of a sweep each model the sweep has created, other
\* than the current best and the candidate in hand (in training or just
\* returned), has been disposed exactly once; the current best has not been
\* disposed; no model is ever disposed twice.
C2_LosersDisposedOnce ==
  /\ \A id \in 1..Len(models) : models[id].disposed <= 1
  /\ \A r \in Sweeps : \A id \in ModelsOf(r) :
        LET inHand == IF runs[r].pc \in {"fit", "ret"} THEN {runs[r].model} ELSE {}
        IN /\ id = runs[r].bestModel => models[id].disposed = 0
           /\ id \notin inHand \cup {runs[r].bestModel} => models[id].disposed = 1

\* the fourth configuration is in training; the second had replaced the first
\* as best (the first was disposed) and the third lost (it was disposed)
C2_Witness ==
  \E r \in Sweeps :
     /\ runs[r].pc = "fit" /\ runs[r].combo = 3
     /\ runs[r].bestModel = ModelOf(r, 2)
     /\ models[ModelOf(r, 1)].disposed = 1
     /\ Comparable(runs[r].mapes[1])
     /\ models[ModelOf(r, 3)].disposed = 1
     /\ models[runs[r].model].disposed = 0

\* C3: a sweep never has more than two undisposed models, and has at most
\* one trained undisposed model except in the step where trainAndEvaluate
\* has returned a candidate that is yet to be compared with the best.
C3_AtMostOneTrainedModel ==
  \A r \in Sweeps :
     /\ Cardinality(Undisposed(r)) <= 2
     /\ runs[r].pc # "ret" => Cardinality(Trained(r)) <= 1

\* the comparison step: the best and the candidate are both trained
C3_Witness ==
  \E r \in Sweeps :
     /\ runs[r].pc = "ret"
     /\ runs[r].bestModel # 0
     /\ Trained(r) = {runs[r].bestModel, runs[r].model}
     /\ Cardinality(Trained(r)) = 2

\* C4: when a run has produced its outcomes and ended, no model it created
\* remains undisposed.
C4_BestModelReleased ==
  \A r \in Sweeps :
     runs[r].pc = "done" /\ ~isTraining => Undisposed(r) = {}

\* a run has ended with outcomes and its best model is still allocated
C4_Witness ==
  \E r \in Sweeps :
     /\ runs[r].pc = "done" /\ ~isTraining
     /\ Len(testPredictions) > 0
     /\ Undisposed(r) = {runs[r].bestModel}

(***************************************************************************)
(* The percentage error as specified, and properties of the outcomes        *)
(***************************************************************************)
RECURSIVE SumOfRatios(_, _, _)
SumOfRatios(idx, actual, predicted) ==
  IF idx = {} THEN Num(0)
  ELSE LET i == CHOOSE j \in idx : TRUE
       IN FAdd(FDiv(FAbs(FSub(actual[i], predicted[i])), FAbs(actual[i])),
               SumOfRatios(idx \ {i}, actual, predicted))

\* 100 * (sum over the indices with a non-zero actual of |a - p| / |a|) /
\* (number of those indices), NaN when there is no such index
MapeSpecified(actual, predicted) ==
  LET idx == {i \in 1..Len(actual) : actual[i] # Num(0)}
  IN IF idx = {} THEN NaN
     ELSE FDiv(FMul(Num(100), SumOfRatios(idx, actual, predicted)), Num(Cardinality(idx)))

\* the last n elements of s
LastOf(s, n) ==
  SubSeq(s, Len(s) - n + 1, Len(s))

\* C9: a run that has produced its outcomes made one future prediction per
\* future period (none when futurePeriods is not positive), the k-th from a
\* window of exactly windowSize values: the last max(0, windowSize - k + 1)
\* values of the whole series followed by the latest of the k - 1 previous
\* predictions; windowSize is the one the best model was trained with, and
\* these predictions are the ones displayed.
C9_AutoregressiveFuture ==
  \A r \in Sweeps :
     runs[r].pc = "done" =>
       LET run == runs[r]
           best == models[run.bestModel]
           W == run.bestWindowSize
           full == Values(run.data)
           preds == run.futureForecasts
           steps == IF run.futurePeriods > 0 THEN run.futurePeriods ELSE 0
           kept(k) == IF W - k + 1 > 0 THEN W - k + 1 ELSE 0
           window(k) == LastOf(full, kept(k)) \o LastOf(SubSeq(preds, 1, k - 1), W - kept(k))
       IN /\ W = best.windowSize
          /\ Len(preds) = steps
          /\ Len(run.futureXs) = steps
          /\ \A k \in 1..steps :
                /\ run.futureXs[k] = window(k)
                /\ Len(run.futureXs[k]) = W
                /\ preds[k] = Predict(best, run.futureXs[k])
          /\ futurePredictions = preds

\* five future periods with a window of three: the seed is made of actual
\* values only, the fifth window of predictions only
C9_Witness ==
  \E r \in Sweeps :
     /\ runs[r].pc = "done"
     /\ runs[r].futurePeriods = 5 /\ runs[r].bestWindowSize = 3
     /\ Len(runs[r].futureForecasts) = 5
     /\ runs[r].futureXs[1] = LastOf(Values(runs[r].data), 3)
     /\ runs[r].futureXs[5] = SubSeq(runs[r].futureForecasts, 2, 4)
     /\ runs[r].futureXs[5] # runs[r].futureXs[1]

\* C10: a run that has produced its outcomes made, for the winning window
\* size W and the test values T, one test prediction per index i from W to
\* len(T) - 1, from the W actual test values T[i-W .. i); the reported error
\* is the percentage error of these predictions against T[W:] and equals the
\* error the winning configuration obtained during the search.
C10_TestPredictionsFromActuals ==
  \A r \in Sweeps :
     runs[r].pc = "done" =>
       LET run == runs[r]
           best == models[run.bestModel]
           W == run.bestWindowSize
           T == Values(SubSeq(run.data, (Len(run.data) * 8) \div 10 + 1, Len(run.data)))
           preds == run.predictionsOnTest
           winner == CHOOSE c \in 1..4 : ModelOf(r, c) = run.bestModel
       IN /\ Len(preds) = Len(T) - W
          /\ Len(run.testXs) = Len(T) - W
          /\ \A j \in 1..(Len(T) - W) :
                /\ run.testXs[j] = SubSeq(T, j, j + W - 1)
                /\ preds[j] = Predict(best, run.testXs[j])
          /\ run.finalMape = MapeSpecified(SubSeq(T, W + 1, Len(T)), preds)
          /\ run.finalMape = run.mapes[winner]
          /\ testMape = run.finalMape
          /\ testPredictions = preds

\* a winner whose predictions are off (a positive error) over three test
\* indices
C10_Witness ==
  \E r \in Sweeps :
     /\ runs[r].pc = "done"
     /\ runs[r].bestWindowSize = 3
     /\ Len(runs[r].predictionsOnTest) = 3
     /\ FLt(Num(0), runs[r].finalMape)
     /\ testMape = runs[r].finalMape

(***************************************************************************)
(* Overlapping sweeps (SpecTrain)                                           *)
(***************************************************************************)
InProgress ==
  {r \in 1..Len(runs) : runs[r].pc \in {"fit", "ret"}}

\* C5: at most one handleTrain run is in progress at any time.
C5_OneSweepInProgress ==
  Cardinality(InProgress) <= 1

\* two sweeps are each awaiting the fit of one of their configurations
C5_Witness ==
  \E r1, r2 \in InProgress :
     /\ r1 # r2
     /\ runs[r1].pc = "fit" /\ runs[r2].pc = "fit"
     /\ models[runs[r1].model].disposed = 0 /\ models[runs[r2].model].disposed = 0

(***************************************************************************)
(* Properties of the helpers (SpecMape, SpecDate, SpecFuture)               *)
(***************************************************************************)
\* C6: for equal-length non-empty arrays each computeMape returns the
\* percentage error over the indices with a non-zero actual, those indices
\* alone being counted, and NaN when there is none.
C6_MapeSkipsZeroActuals ==
  call.fn = "computeMape" /\ Len(call.actual) = Len(call.predicted) /\ Len(call.actual) > 0
  => /\ call.appReturned => call.app = MapeSpecified(call.actual, call.predicted)
     /\ call.tsmReturned => call.tsm = MapeSpecified(call.actual, call.predicted)

\* ([0,10],[5,12]): 20 from App.tsx, 10 from models/timeSeriesModel.ts
C6_Witness ==
  /\ call.fn = "computeMape"
  /\ call.actual = <<Num(0), Num(10)>> /\ call.predicted = <<Num(5), Num(12)>>
  /\ call.appReturned /\ call.app = Num(20)
  /\ call.tsmReturned /\ call.tsm = Num(10)

AllDigits(s) ==
  s # << >> /\ \A i \in 1..Len(s) : IsDigit(s[i])

\* the year, month and day written in a string of three numeric parts
WrittenDate(dateStr, fmt) ==
  LET p == Split(dateStr, {"-", "/"})
      n(i) == DigitPrefix(p[i], 1, 0)[1]
  IN CASE fmt = "Y/M/D" -> [year |-> n(1), month |-> n(2), day |-> n(3)]
       [] fmt = "D/M/Y" -> [year |-> n(3), month |-> n(2), day |-> n(1)]
       [] OTHER -> [year |-> n(3), month |-> n(1), day |-> n(2)]

\* C7: a date string of three numeric parts whose month is outside 1..12 or
\* whose day is outside 1..(days of that month) normalizes to an invalid Date.
C7_OutOfRangeIsInvalid ==
  /\ call.fn = "parseDateFromFormat" /\ call.returned
  /\ Len(Split(call.dateStr, {"-", "/"})) = 3
  /\ \A i \in 1..3 : AllDigits(Split(call.dateStr, {"-", "/"})[i])
  /\ LET w == WrittenDate(call.dateStr, call.dateFormat)
     IN w.month \notin 1..12 \/ w.day \notin 1..DaysInMonth(w.year, w.month)
  => ~call.ret.valid

\* "13/13/2024" read as D/M/Y is the 13th of January 2025
C7_Witness ==
  /\ call.fn = "parseDateFromFormat" /\ call.returned
  /\ call.dateStr = <<"1", "3", "/", "1", "3", "/", "2", "0", "2", "4">>
  /\ call.dateFormat = "D/M/Y"
  /\ call.ret.valid
  /\ call.iso = <<"2", "0", "2", "5", "-", "0", "1", "-", "1", "3">>

\* the canonical form of the date i days after the canonical date s
DaysAfter(s, i) ==
  LET y == DigitPrefix(SubSeq(s, 1, 4), 1, 0)[1]
      m == DigitPrefix(SubSeq(s, 6, 7), 1, 0)[1]
      d == DigitPrefix(SubSeq(s, 9, 10), 1, 0)[1]
      c == CivilFromDays(DaysFromCivil(y, m, d) + i)
  IN CanonicalText(c[1], c[2], c[3])

\* C8: for a valid canonical date d and a count, in every host time zone
\* generateFutureDates returns count labels, the i-th being the canonical
\* form of the date i days after d.
C8_FutureDatesFollow ==
  /\ call.fn = "generateFutureDates" /\ call.returned
  /\ call.lastDateStr \in {CanonicalText(c[1], c[2], c[3]) : c \in LastDates}
  => /\ Len(call.ret) = call.periods
     /\ \A i \in 1..call.periods : call.ret[i] = DaysAfter(call.lastDateStr, i)

\* west of Greenwich ("2024-03-15", 3) starts at d itself
C8_Witness ==
  /\ call.fn = "generateFutureDates" /\ call.returned
  /\ tzOffset < 0
  /\ call.lastDateStr = <<"2", "0", "2", "4", "-", "0", "3", "-", "1", "5">>
  /\ call.periods = 3
  /\ call.ret = << <<"2", "0", "2", "4", "-", "0", "3", "-", "1", "5">>,
                   <<"2", "0", "2", "4", "-", "0", "3", "-", "1", "6">>,
                   <<"2", "0", "2", "4", "-", "0", "3", "-", "1", "7">> >>

(***************************************************************************)
(* Steps 2 and 3 on the uploaded series (SpecData): the user goes back to   *)
(* the columns, picks them again (column c gives a series of MinPoints - 1  *)
(* points), transforms and trains; every training ends in the "trend"       *)
(* weights.                                                                 *)
(***************************************************************************)
NextData ==
  \/ setDateColumnName
  \/ setValueColumnName
  \/ handleTransform
  \/ handleBackToColumns
  \/ setFuturePeriods
  \/ handleTrain /\ Len(runs') <= MaxSweeps
  \/ \E r \in 1..Len(runs) : fitResolvedWith(r, "trend")
  \/ \E r \in 1..Len(runs) : handleTrainResume(r)

SpecData ==
  InitLoaded /\ [][NextData]_vars

\* C11: no run ever works on a series shorter than 20 points, and a click on
\* "Entrenar modelo" with such a series sets the insufficient-data error and
\* nothing else: no run, no model, isTraining, progress, the estimated time
\* and the test/future results as they were.
C11_ShortSeriesRejected ==
  /\ [](\A r \in 1..Len(runs) : runs[r].pc # "gone" => Len(runs[r].data) >= 20)
  /\ [][handleTrain /\ Len(data) < 20
        => /\ error' = "Se necesitan al menos 20 datos para entrenar."
           /\ UNCHANGED <<runs, models, isTraining, progress, timeLeft, testPredictions,
                          testMape, futurePredictions, futureDates>>]_vars

\* the click was made on the series of 19 points taken from column c
C11_Witness ==
  /\ Len(data) = 19
  /\ error = "Se necesitan al menos 20 datos para entrenar."
  /\ ~isTraining
  /\ InProgress = {}
  /\ testPredictions = << >>

\* C12: a sweep in which no configuration returned a comparable error ends
\* failed: the "no viable model" error is set, isTraining is false, the
\* test/future results are empty, and every model the sweep created has been
\* disposed; and a sweep fails in no other case.
C12_NoViableModel ==
  \A r \in Sweeps :
     runs[r].pc \in {"done", "failed"} =>
       LET exhausted == \A c \in 1..Len(runs[r].mapes) : ~Comparable(runs[r].mapes[c])
       IN /\ exhausted <=> runs[r].pc = "failed"
          /\ exhausted =>
               /\ error = "No se pudo entrenar ningun modelo."
               /\ ~isTraining
               /\ testPredictions = << >> /\ testMape = NullNum
               /\ futurePredictions = << >> /\ futureDates = << >>
               /\ Undisposed(r) = {}
               /\ \A id \in ModelsOf(r) : models[id].disposed = 1

\* the four configurations all diverged
C12_Witness ==
  \E r \in Sweeps :
     /\ runs[r].pc = "failed"
     /\ Len(runs[r].mapes) = 4
     /\ \A c \in 1..4 : IsNaN(runs[r].mapes[c])
     /\ Cardinality(ModelsOf(r)) = 4

(***************************************************************************)
(* A sweep after another on the same series (SpecRerun): each training ends *)
(* in the "trend" weights or has diverged.                                  *)
(***************************************************************************)
\* sweeps started per behaviour
MaxReruns ==
  2

NextRerun ==
  \/ handleTrain /\ Len(runs') <= MaxReruns
  \/ \E r \in 1..Len(runs) : \E w \in {"trend", "diverged"} : fitResolvedWith(r, w)
  \/ \E r \in 1..Len(runs) : handleTrainResume(r)

SpecRerun ==
  InitLoaded /\ [][NextRerun]_vars

\* C13: once a run has failed for want of a viable model, an error message
\* is set and the results on the page are the ones that were there when the
\* run was started; and a click rejected for insufficient data sets an error
\* message and leaves the results as they were.
C13_FailureKeepsPriorResults ==
  /\ [](\A r \in Sweeps :
          runs[r].pc = "failed" => error # Null /\ resultVars = runs[r].shown)
  /\ [][handleTrain /\ Len(data) < 20 => error' # Null /\ UNCHANGED resultVars]_vars

\* a second run on the same series has failed: the results of the first are
\* gone from the page
C13_Witness ==
  \E r \in Sweeps :
     /\ runs[r].pc = "failed" /\ r = 2
     /\ Len(runs[r].shown[1]) = 3
     /\ runs[r].shown[2] = Num(0)
     /\ testPredictions = << >> /\ testMape = NullNum
     /\ futurePredictions = << >> /\ futureDates = << >>
     /\ error = "No se pudo entrenar ningun modelo."

(***************************************************************************)
(* The split and the sequences                                              *)
(***************************************************************************)
\* C14: a run splits its series, in order, into the first floor(len * 0.8)
\* points (train) and the remaining ones (test), and the tensors a model is
\* fitted on are the windows and labels of the train values alone: no value
\* of a test point is in them.
C14_ChronologicalSplit ==
  \A r \in Sweeps :
     LET points == runs[r].data
         len == Len(points)
         k == (len * 8) \div 10
         train == SubSeq(points, 1, k)
         test == SubSeq(points, k + 1, len)
         W == models[runs[r].model].windowSize
     IN /\ len >= 20
        /\ TrainData(points) = train
        /\ TestData(points) = test
        /\ train \o test = points
        /\ runs[r].pc = "fit" =>
             /\ Len(runs[r].tensorX) = k - W /\ Len(runs[r].tensorY) = k - W
             /\ \A i \in 1..(k - W) :
                   /\ runs[r].tensorX[i] = [j \in 1..W |-> train[i + j - 1].value]
                   /\ runs[r].tensorY[i] = train[i + W].value
                   /\ \A t \in 1..Len(test) :
                         /\ runs[r].tensorY[i] # test[t].value
                         /\ \A j \in 1..W : runs[r].tensorX[i][j] # test[t].value

\* a model with a window of five is being fitted on the 15 windows of the
\* 20 train points of a series of 26
C14_Witness ==
  \E r \in Sweeps :
     /\ runs[r].pc = "fit"
     /\ Len(runs[r].data) = 26
     /\ models[runs[r].model].windowSize = 5
     /\ Len(runs[r].tensorX) = 15
     /\ runs[r].tensorY[15] = runs[r].data[20].value

(***************************************************************************)
(* createSequences on its own: both copies on every short array             *)
(***************************************************************************)
\* longest array handed to createSequences
MaxSeqLen ==
  4

\* largest window size handed to createSequences
MaxWindow ==
  3

SeqValues ==
  {Num(1), Num(2), Num(3)}

InitSeq ==
  /\ AppInit
  /\ tzOffset \in TZOffsets
  /\ \E values \in SeqsUpTo(SeqValues, MaxSeqLen), windowSize \in 1..MaxWindow :
       call = [fn |-> "createSequences", values |-> values, windowSize |-> windowSize,
               appReturned |-> FALSE, app |-> [X |-> << >>, Y |-> << >>],
               tsmReturned |-> FALSE, tsm |-> [X |-> << >>, Y |-> << >>]]

\* createSequences of App.tsx is called
callCreateSequences ==
  /\ call.fn = "createSequences" /\ ~call.appReturned
  /\ call' = [call EXCEPT !.appReturned = TRUE,
                          !.app = createSequences(call.values, call.windowSize)]
  /\ UNCHANGED <<appVars, tzOffset>>

\* createSequences of models/timeSeriesModel.ts is called
callTsmCreateSequences ==
  /\ call.fn = "createSequences" /\ ~call.tsmReturned
  /\ call' = [call EXCEPT !.tsmReturned = TRUE,
                          !.tsm = tsmCreateSequences(call.values, call.windowSize)]
  /\ UNCHANGED <<appVars, tzOffset>>

NextSeq ==
  \/ callCreateSequences
  \/ callTsmCreateSequences

SpecSeq ==
  InitSeq /\ [][NextSeq]_vars

\* what createSequences is specified to return for an array and a window size
SequencesSpecified(values, W, ret) ==
  LET L == Len(values)
      n == IF L - W > 0 THEN L - W ELSE 0
  IN /\ Len(ret.X) = n /\ Len(ret.Y) = n
     /\ \A i \in 1..n :
           /\ Len(ret.X[i]) = W
           /\ \A j \in 1..W : ret.X[i][j] = values[i + j - 1]
           /\ ret.Y[i] = values[i + W]
     /\ L <= W => ret.X = << >> /\ ret.Y = << >>

\* C15: for a window size W >= 1 and an array of length L, each createSequences
\* returns exactly max(0, L - W) pairs, the i-th window being W consecutive
\* values from position i and its label the value right after them; nothing
\* is returned when L <= W; the array handed in is left as it was.
C15_SequencesAreSlidingWindows ==
  /\ [](call.fn = "createSequences" /\ call.windowSize >= 1 =>
          /\ call.appReturned => SequencesSpecified(call.values, call.windowSize, call.app)
          /\ call.tsmReturned => SequencesSpecified(call.values, call.windowSize, call.tsm))
  /\ [][callCreateSequences \/ callTsmCreateSequences
          => call'.values = call.values]_vars

\* both copies returned the two windows of a four-value array with window
\* size two
C15_Witness ==
  /\ call.fn = "createSequences" /\ call.appReturned /\ call.tsmReturned
  /\ call.values = <<Num(1), Num(2), Num(3), Num(1)>> /\ call.windowSize = 2
  /\ call.app = [X |-> << <<Num(1), Num(2)>>, <<Num(2), Num(3)>> >>,
                 Y |-> <<Num(3), Num(1)>>]
  /\ call.tsm = call.app

\* C16: each computeMape returns NaN whenever its two arrays differ in length
\* or are empty.
C16_MapeOfMismatchIsNaN ==
  call.fn = "computeMape" /\ (Len(call.actual) # Len(call.predicted) \/ Len(call.actual) = 0)
  => /\ call.appReturned => IsNaN(call.app)
     /\ call.tsmReturned => IsNaN(call.tsm)

\* both copies returned NaN for one actual value against two predictions
C16_Witness ==
  /\ call.fn = "computeMape" /\ call.appReturned /\ call.tsmReturned
  /\ call.actual = <<Num(10)>> /\ call.predicted = <<Num(10), Num(5)>>
  /\ IsNaN(call.app) /\ IsNaN(call.tsm)

\* C17: a date string that does not split on '-' or '/' into exactly three
\* parts, or one of whose parts is not entirely numeric, normalizes to an
\* invalid Date in each of the three formats, and so does any string in a
\* format other than the three.
C17_MalformedIsInvalid ==
  call.fn = "parseDateFromFormat" /\ call.returned
  => LET parts == Split(call.dateStr, {"-", "/"})
     IN \/ call.dateFormat \notin AllDateFormats
        \/ Len(parts) # 3
        \/ \E i \in 1..Len(parts) : ~AllDigits(parts[i])
        => ~call.ret.valid

\* "2024/03/15/9", four parts, read as Y/M/D is the 15th of March 2024
C17_Witness ==
  /\ call.fn = "parseDateFromFormat" /\ call.returned
  /\ call.dateStr = <<"2", "0", "2", "4", "/", "0", "3", "/", "1", "5", "/", "9">>
  /\ call.dateFormat = "Y/M/D"
  /\ call.ret.valid
  /\ call.iso = <<"2", "0", "2", "4", "-", "0", "3", "-", "1", "5">>

\* a string in a format other than the three came back invalid
C17_UnknownFormat ==
  /\ call.fn = "parseDateFromFormat" /\ call.returned
  /\ call.dateFormat \notin AllDateFormats
  /\ Len(Split(call.dateStr, {"-", "/"})) = 3
  /\ ~call.ret.valid

\* the label "Future +i"
FutureLabel(i) ==
  <<"F", "u", "t", "u", "r", "e", " ", "+">> \o NatToStr(i)

\* C18, as stated: for a last date that is no date, generateFutureDates
\* returns exactly count labels "Future +1" .. "Future +count", in that order.
C18_FallbackLabelsFuture ==
  /\ call.fn = "generateFutureDates" /\ call.returned
  /\ call.lastDateStr \in UnparsableTexts
  => /\ Len(call.ret) = call.periods
     /\ \A i \in 1..call.periods : call.ret[i] = FutureLabel(i)

\* C18, amended: for a last date that is no date, generateFutureDates returns
\* exactly count labels "Futuro +1" .. "Futuro +count", in that order.
C18_FallbackLabelsFuturo ==
  /\ call.fn = "generateFutureDates" /\ call.returned
  /\ call.lastDateStr \in UnparsableTexts
  => /\ Len(call.ret) = call.periods
     /\ \A i \in 1..call.periods :
           call.ret[i] = <<"F", "u", "t", "u", "r", "o", " ", "+">> \o NatToStr(i)

\* ("not-a-date", 2) returned "Futuro +1", "Futuro +2"
C18_Witness ==
  /\ call.fn = "generateFutureDates" /\ call.returned
  /\ call.lastDateStr = <<"n", "o", "t", "-", "a", "-", "d", "a", "t", "e">>
  /\ call.periods = 2
  /\ call.ret = << <<"F", "u", "t", "u", "r", "o", " ", "+", "1">>,
                   <<"F", "u", "t", "u", "r", "o", " ", "+", "2">> >>

(***************************************************************************)
(* Step 2 on small files: the rows handleTransform keeps                    *)
(***************************************************************************)
\* most data rows of a file
MaxRows ==
  2

\* what a file has in its date column and in its value column
RowDateTexts ==
  {<<"2", "0", "2", "4", "-", "0", "1", "-", "0", "5">>,
   <<"0", "5", "/", "0", "1", "/", "2", "0", "2", "4">>,
   <<"s", "o", "o", "n">>,
   << >>}

RowValueTexts ==
  {<<"7">>, <<"1", ".", "5">>, <<"-", "3">>, <<"n", "/", "a">>,
   <<"I", "n", "f", "i", "n", "i", "t", "y">>, << >>}

RowLines ==
  {d \o <<",">> \o v : d \in RowDateTexts, v \in RowValueTexts}

\* the state after a file of at most MaxRows data rows was read with ",":
\* step 2 is on the page and nothing is selected yet
InitTransform ==
  /\ delimiter = ","
  /\ dateFormat \in DateFormats
  /\ selectedFile = "series.csv"
  /\ error = Null
  /\ \E lines \in UNION {[1..k -> RowLines] : k \in 1..MaxRows} :
       \E parsed \in {parseCSV(<<HeaderLine>> \o lines \o << << >> >>, ",")} :
          /\ columns = parsed[1]
          /\ csvRows = SliceFrom(parsed, 1)
  /\ dateColumnName = << >>
  /\ valueColumnName = << >>
  /\ tzOffset \in TZOffsets
  /\ data = << >>
  /\ isTraining = FALSE
  /\ progress = 0
  /\ timeLeft = NullNum
  /\ testPredictions = << >>
  /\ testMape = NullNum
  /\ futurePeriods = 5
  /\ futurePredictions = << >>
  /\ futureDates = << >>
  /\ upload = NoUpload
  /\ runs = << >>
  /\ models = << >>
  /\ now = 0
  /\ call = NoCall

NextTransform ==
  \/ setDateColumnName
  \/ setValueColumnName
  \/ handleTransform
  \/ handleBackToColumns

SpecTransform ==
  InitTransform /\ [][NextTransform]_vars

\* the rows the series is specified to keep: those whose value is a number
\* and whose date normalizes to a valid date
RECURSIVE RowsKept(_, _, _, _)
RowsKept(rows, dateIndex, valueIndex, fmt) ==
  IF rows = << >> THEN << >>
  ELSE LET row == Head(rows)
           dateStr == IF dateIndex < Len(row) THEN row[dateIndex + 1] ELSE << >>
           val == IF valueIndex < Len(row) THEN parseFloat(row[valueIndex + 1]) ELSE NaN
           date == parseDateFromFormat(dateStr, fmt)
           rest == RowsKept(Tail(rows), dateIndex, valueIndex, fmt)
       IN IF IsFinite(val) /\ date.valid
          THEN <<[date |-> toISODate(date), value |-> val]>> \o rest
          ELSE rest

\* C19: handleTransform with both columns selected among the file's columns
\* sets no error and makes the series, in row order, exactly the rows whose
\* value parses to a number and whose date normalizes to a valid date; every
\* point has a date YYYY-MM-DD and a finite value.
C19_TransformKeepsGoodRows ==
  [][handleTransform
       /\ indexOf(columns, dateColumnName) # -1 /\ indexOf(columns, valueColumnName) # -1
     => /\ error' = Null
        /\ data' = RowsKept(csvRows, indexOf(columns, dateColumnName),
                            indexOf(columns, valueColumnName), dateFormat)
        /\ \A i \in 1..Len(data') :
              IsIsoShape(data'[i].date) /\ IsFinite(data'[i].value)]_vars

\* the row "2024-01-05,Infinity" became a point of the series
C19_Witness ==
  /\ Len(data) > 0
  /\ \E i \in 1..Len(data) :
        /\ data[i].date = <<"2", "0", "2", "4", "-", "0", "1", "-", "0", "5">>
        /\ ~IsFinite(data[i].value) /\ ~IsNaN(data[i].value)
  /\ error = Null

(***************************************************************************)
(* Progress and time left                                                   *)
(***************************************************************************)
\* C20: while a run is in progress the progress on the page never decreases,
\* whatever the user clicks; it is 0 when the run starts, round(100 * k / N)
\* after the k-th of the N configurations, within 0..100, and 100 after the
\* last one; the time left shown after k configurations is
\* (elapsed / k) * (N - k), never negative, and 0 after the last one.
C20_ProgressMonotone ==
  /\ [](progress \in 0..100)
  /\ [][InProgress # {} /\ InProgress' # {} => progress' >= progress]_vars
  /\ [][InProgress = {} /\ InProgress' # {} => progress' = 0]_vars
  /\ [][\A r \in 1..Len(runs) :
          handleTrainResume(r) =>
            LET k == runs'[r].combosProcessed
                elapsed == now - runs[r].startTime
                eta == FMul(FDiv(Num(elapsed), Num(k)), Num(totalCombos - k))
            IN /\ progress' = (200 * k + totalCombos) \div (2 * totalCombos)
               /\ FEq(FMul(timeLeft', Num(1000)), eta)
               /\ ~FLt(timeLeft', Num(0))
               /\ k = totalCombos => progress' = 100 /\ FEq(timeLeft', Num(0))]_vars

\* "Volver atras" was clicked while a run had a configuration behind it: the
\* run goes on and the progress on the page is back at 0
C20_Witness ==
  /\ progress = 0
  /\ ~isTraining
  /\ \E r \in InProgress : runs[r].combosProcessed >= 1

(***************************************************************************)
(* Undefined errors in the selection                                        *)
(***************************************************************************)
\* C21: when the error trainAndEvaluate returned is NaN, the selection that
\* follows disposes that candidate at once, never makes it the best model
\* (not even when it is the first candidate), and leaves bestMape, bestModel
\* and bestWindowSize as they were.
C21_NaNNeverAdopted ==
  [][\A r \in 1..Len(runs) :
       handleTrainResume(r) /\ IsNaN(runs[r].mape) =>
         /\ runs'[r].bestMape = runs[r].bestMape
         /\ runs'[r].bestModel = runs[r].bestModel
         /\ runs'[r].bestWindowSize = runs[r].bestWindowSize
         /\ runs'[r].bestModel # runs[r].model
         /\ models[runs[r].model].disposed = 0
         /\ models'[runs[r].model].disposed = 1]_vars

\* the second configuration returned NaN after the first had been adopted:
\* the first is still the best and the second is disposed
C21_Witness ==
  \E r \in Sweeps :
     /\ Len(Compared(r)) >= 2
     /\ Comparable(runs[r].mapes[1]) /\ IsNaN(runs[r].mapes[2])
     /\ runs[r].bestModel = ModelOf(r, 1)
     /\ runs[r].bestMape = runs[r].mapes[1]
     /\ models[ModelOf(r, 2)].disposed = 1

\* a sweep whose first configuration returned NaN has no best model after it
C21_FirstIsNaN ==
  \E r \in Sweeps :
     /\ Len(Compared(r)) = 1 /\ IsNaN(runs[r].mapes[1])
     /\ runs[r].bestModel = 0 /\ runs[r].bestMape = PosInf
     /\ models[ModelOf(r, 1)].disposed = 1

(***************************************************************************)
(* Runs in flight and the handlers that clear the results                   *)
(***************************************************************************)
\* steps 2 and 3 with runs in flight: the column selections, "Transformar",
\* the back button of step 2, the two back buttons of step 3 and "Entrenar
\* modelo"
NextStale ==
  \/ setDateColumnName
  \/ setValueColumnName
  \/ handleBackToCSV
  \/ handleTransform
  \/ handleBackToColumns
  \/ handleBackToData
  \/ handleTrain /\ Len(runs') <= MaxSweeps
  \/ \E r \in 1..Len(runs) : fitResolvedWith(r, "trend")
  \/ \E r \in 1..Len(runs) : handleTrainResume(r)

SpecStale ==
  InitLoaded /\ [][NextStale]_vars

NoResults ==
  << << >>, NullNum, << >>, << >> >>

\* C22: once a handler that clears the results has run, a run that was
\* started before it writes neither results nor error nor isTraining, and
\* the results stay empty until a run started after it completes.
C22_StaleRunsWriteNothing ==
  /\ [][\A r \in 1..Len(runs) :
          handleTrainResume(r) /\ runs[r].stale
          => UNCHANGED <<resultVars, error, isTraining>>]_vars
  /\ [][resultVars = NoResults /\ resultVars' # NoResults
          => \E r \in 1..Len(runs) :
                handleTrainResume(r) /\ ~runs[r].stale /\ runs'[r].pc = "done"]_vars

\* the results on the page are those of a run that was started on a series
\* the page no longer holds
C22_Witness ==
  \E r \in 1..Len(runs) :
     /\ runs[r].pc = "done" /\ runs[r].stale
     /\ testPredictions # << >>
     /\ testPredictions = runs[r].predictionsOnTest
     /\ futureDates = runs[r].futureDts
     /\ data # runs[r].data
     /\ ~isTraining

(***************************************************************************)
(* What the back buttons clear and what they leave                          *)
(***************************************************************************)
\* the training outputs are cleared: results, progress, time left,
\* isTraining and error
TrainingOutputsCleared ==
  /\ resultVars' = NoResults
  /\ progress' = 0 /\ timeLeft' = NullNum /\ isTraining' = FALSE
  /\ error' = Null

\* C23: handleBackToData clears the training outputs and leaves data,
\* columns, csvRows and the column selections; handleBackToColumns clears
\* these, data and the two column selections as well, and leaves columns,
\* csvRows and selectedFile; handleBackToCSV clears all of that, columns,
\* csvRows and selectedFile as well, and leaves delimiter and dateFormat.
C23_BackClearsDownstream ==
  /\ [][handleBackToData
          => /\ TrainingOutputsCleared
             /\ UNCHANGED <<data, columns, csvRows, dateColumnName, valueColumnName,
                            selectedFile, delimiter, dateFormat>>]_vars
  /\ [][handleBackToColumns
          => /\ TrainingOutputsCleared
             /\ data' = << >> /\ dateColumnName' = << >> /\ valueColumnName' = << >>
             /\ UNCHANGED <<columns, csvRows, selectedFile, delimiter, dateFormat>>]_vars
  /\ [][handleBackToCSV
          => /\ TrainingOutputsCleared
             /\ data' = << >> /\ dateColumnName' = << >> /\ valueColumnName' = << >>
             /\ columns' = << >> /\ csvRows' = << >> /\ selectedFile' = Null
             /\ UNCHANGED <<delimiter, dateFormat>>]_vars

\* back at step 2 after a run that ended: the series and the selections are
\* cleared, the progress is still 100 and the time left still 0
C23_Witness ==
  /\ data = << >> /\ dateColumnName = << >> /\ valueColumnName = << >>
  /\ columns # << >> /\ csvRows # << >>
  /\ resultVars = NoResults
  /\ progress = 100 /\ timeLeft = Num(0)
  /\ InProgress = {}

\* back at step 1 from step 2: the file is cleared, the selections are not
C23_SelectionsKept ==
  /\ columns = << >> /\ csvRows = << >> /\ selectedFile = Null
  /\ dateColumnName # << >> /\ valueColumnName # << >>

(***************************************************************************)
(* Future predictions and their dates                                       *)
(***************************************************************************)
\* C24: after a run that ended with a model, started with futurePeriods an
\* integer >= 0, the page holds exactly that many future predictions and as
\* many future dates, whatever futurePeriods has been set to since: every
\* prediction of the future chart has its date.
C24_FuturePairsComplete ==
  \A r \in Sweeps :
     runs[r].pc = "done" /\ runs[r].futurePeriods >= 0
     => /\ Len(futurePredictions) = runs[r].futurePeriods
        /\ Len(futureDates) = runs[r].futurePeriods
        /\ Len(runs[r].futureForecasts) = runs[r].futurePeriods
        /\ Len(runs[r].futureDts) = runs[r].futurePeriods
        /\ futurePredictions = runs[r].futureForecasts
        /\ futureDates = runs[r].futureDts

\* a run started with futurePeriods = 2 ended with two predictions and two
\* dates after the input had been set to another value
C24_Witness ==
  \E r \in Sweeps :
     /\ runs[r].pc = "done" /\ runs[r].futurePeriods = 2
     /\ futurePeriods # 2
     /\ Len(futurePredictions) = 2 /\ Len(futureDates) = 2

\* a run started with futurePeriods = 0 ended with no prediction and no date
C24_NoFuture ==
  \E r \in Sweeps :
     /\ runs[r].pc = "done" /\ runs[r].futurePeriods = 0
     /\ futurePredictions = << >> /\ futureDates = << >>
     /\ testPredictions # << >>

====
